---------------------------- MODULE Spec2Model ----------------------------
(* Recent-tab history of the cycle-through-recent-tabs extension.          *)
(* The module models the signal-based in-memory variant                    *)
(* (src/background.js lines 187-335): the ledger recentTabs, the flag      *)
(* isTraversingHistory, the rendezvous promise activationPromise and the   *)
(* three listeners onRemoved, onActivated and onCommand, run by a          *)
(* single-threaded event loop whose only suspension points are the two     *)
(* awaits of the source.                                                   *)
(* The storage-backed variant (lines 1-185) and the index-based variant    *)
(* (lines 459-555) follow as specifications of their own, StoreSpec and    *)
(* IdxSpec, over the same variables, and so does the index-based variant  *)
(* of src/background_script.js, ScriptSpec.                                *)
EXTENDS Integers, Sequences, FiniteSets, TLC

(* ---------------------------- bounds ----------------------------------- *)
\* number of tabs the host ever has
MaxTab == 3
\* largest lastSeen an entry may reach (aging is unbounded in the code)
MaxSeen == 3
\* number of command handlers that may be suspended on their actuation
MaxCmds == 2
\* longest ledger findCurrentTab is applied to on its own
MaxLen == 5
\* storage-backed variant: number of listeners suspended at the same time
MaxHandlers == 2
\* storage-backed variant: oldest accessTime an entry may reach is -MaxAge
MaxAge == 2
\* index-based variant: longest recentTabs (the code never drops a revisit)
MaxHistory == 4

VARIABLES
    recentTabs,               \* the ledger, past first, future last
    isTraversingHistory,      \* set while a command handler actuates
    activationPromise,        \* 0 (undefined/null), or the pending promise,
                              \* named by the tab whose handler created it;
                              \* resolveActivationPromise is its resolver
    removal,                  \* per tab: position of its onRemoved handler
    actuations,               \* number of Promise.all calls in flight
    lastOp,                   \* the handler step taken last
    idx,                      \* index-based variant: the cursor into recentTabs
    handlers                  \* storage-backed variant: the listeners suspended
                              \* on an await, each with its local variables

vars == <<recentTabs, isTraversingHistory, activationPromise, removal,
          actuations, lastOp, idx, handlers>>

(* ------------------------------ host ----------------------------------- *)
TabIds == 1..MaxTab

\* every tab lives in one of two windows
WindowOf(t) == 1 + (t % 2)

\* the {tabId, windowId} pair the host passes to a listener
Key(t) == [tabId |-> t, windowId |-> WindowOf(t)]

\* tabs whose removal event has not been delivered
Alive == {t \in TabIds : removal[t] = "idle"}

\* a continuation of an await is queued: it runs before any other event
MicrotaskQueued == \E t \in TabIds : removal[t] = "ready"

(* ----------------------------- helpers --------------------------------- *)
Entry(k, seen) == [tabId |-> k.tabId, windowId |-> k.windowId, lastSeen |-> seen]

\* mutant of equals: the tabId comparison left out
equals_WindowOnly(a, b) == a.windowId = b.windowId

equals(a, b) == a.tabId = b.tabId /\ a.windowId = b.windowId

\* mutant of FilterOut: the predicate of the filter inverted
FilterOut_Inverted(tabs, tab) ==
    SelectSeq(tabs, LAMBDA e : e.tabId = tab.tabId /\ e.windowId = tab.windowId)

\* Array.prototype.filter keeping the entries that differ from tab
RECURSIVE FilterOut(_, _)
FilterOut(tabs, tab) ==
    IF tabs = <<>> THEN <<>>
    ELSE IF equals(Head(tabs), tab) THEN FilterOut(Tail(tabs), tab)
         ELSE <<Head(tabs)>> \o FilterOut(Tail(tabs), tab)

\* mutant of BinarySearch: the search turns to the wrong half
RECURSIVE BinarySearch_WrongSide(_, _, _)
BinarySearch_WrongSide(tabs, start, end) ==
    IF start > end THEN -1
    ELSE LET mid == (start + end) \div 2
             seen == tabs[mid + 1].lastSeen
         IN  IF seen = 0 THEN mid
             ELSE IF seen > 0 THEN BinarySearch_WrongSide(tabs, start, mid - 1)
                  ELSE BinarySearch_WrongSide(tabs, mid + 1, end)

\* the loop of findCurrentTab on the window [start, end] (JS indices)
RECURSIVE BinarySearch(_, _, _)
BinarySearch(tabs, start, end) ==
    IF start > end THEN -1
    ELSE LET mid == (start + end) \div 2
             seen == tabs[mid + 1].lastSeen
         IN  IF seen = 0 THEN mid
             ELSE IF seen < 0 THEN BinarySearch(tabs, start, mid - 1)
                  ELSE BinarySearch(tabs, mid + 1, end)

\* JS index of the entry with lastSeen = 0, or -1
findCurrentTab(tabs) == BinarySearch(tabs, 0, Len(tabs) - 1)

\* mutant of Truncate: the future is never cut off
Truncate_Never(tabs, curIdx) == tabs

\* recentTabs.length = curIdx + 1, done only when curIdx is not the last index
Truncate(tabs, curIdx) ==
    IF curIdx # Len(tabs) - 1 THEN SubSeq(tabs, 1, curIdx + 1) ELSE tabs

\* mutant of Age: the aging loop left out
Age_None(tabs) == tabs

\* for (const tab of recentTabs) tab.lastSeen++
Age(tabs) == [i \in 1..Len(tabs) |-> [tabs[i] EXCEPT !.lastSeen = @ + 1]]

\* mutant of recordVisit: the dedupe filter left out
recordVisit_NoDedupe(tabs, k) ==
    Append(Age(Truncate(tabs, findCurrentTab(tabs))), Entry(k, 0))

\* the ledger mutation of the onActivated listener
recordVisit(tabs, k) ==
    LET tabToAdd == Entry(k, 0)
        curIdx   == findCurrentTab(tabs)
    IN  Append(Age(FilterOut(Truncate(tabs, curIdx), tabToAdd)), tabToAdd)

\* mutant of ActivationIgnored: the listener never returns early
ActivationIgnored_Never(flag) == FALSE

\* the guard at the head of the onActivated listener
ActivationIgnored(flag) == flag

\* mutant of NewIdx: the two directions swapped
NewIdx_Swapped(command, curIdx, len) ==
    IF command = "go-forward" /\ curIdx > 0 THEN curIdx - 1
    ELSE IF command = "go-back" /\ curIdx < len - 1 THEN curIdx + 1
    ELSE -2

\* mutant of NewIdx: go-back at the first entry wraps around to the last
NewIdx_Wrap(command, curIdx, len) ==
    IF command = "go-back" /\ curIdx > 0 THEN curIdx - 1
    ELSE IF command = "go-back" /\ curIdx = 0 /\ len > 1 THEN len - 1
    ELSE IF command = "go-forward" /\ curIdx < len - 1 THEN curIdx + 1
    ELSE -2

\* the bounds check of the onCommand listener: the new index, or -2 for undefined
NewIdx(command, curIdx, len) ==
    IF command = "go-back" /\ curIdx > 0 THEN curIdx - 1
    ELSE IF command = "go-forward" /\ curIdx < len - 1 THEN curIdx + 1
    ELSE -2

\* mutant of Recenter: the operands of the subtraction exchanged
Recenter_Reversed(tabs, newIdx) ==
    [i \in 1..Len(tabs) |->
        [tabs[i] EXCEPT !.lastSeen = tabs[newIdx + 1].lastSeen - @]]

\* for (const tab of recentTabs) tab.lastSeen -= prevLastSeen
Recenter(tabs, newIdx) ==
    LET prevLastSeen == tabs[newIdx + 1].lastSeen
    IN  [i \in 1..Len(tabs) |-> [tabs[i] EXCEPT !.lastSeen = @ - prevLastSeen]]

Op(name, t, note) == [op |-> name, tab |-> t, note |-> note]

\* what the onActivated listener did with the key k on the ledger tabs: whether
\* k was new, sat at or before the present, or sat in the future only, and
\* whether a future was cut off
VisitNote(tabs, k) ==
    LET curIdx == findCurrentTab(tabs)
        kept   == Truncate(tabs, curIdx)
        cut    == IF Len(kept) < Len(tabs) THEN "-branched" ELSE ""
    IN  IF \E i \in 1..Len(kept) : equals(kept[i], k) THEN "revisit" \o cut
        ELSE IF \E i \in 1..Len(tabs) : equals(tabs[i], k) THEN "future" \o cut
        ELSE "new" \o cut

(* ------------------------------ Init ----------------------------------- *)
\* main() seeds the ledger with the host's current tab, then registers
\* the listeners
Init ==
    /\ recentTabs = <<Entry(Key(1), 0)>>
    /\ isTraversingHistory = FALSE
    /\ activationPromise = 0
    /\ removal = [t \in TabIds |-> "idle"]
    /\ actuations = 0
    /\ lastOp = Op("main", 0, "seeded")
    /\ idx = 0
    /\ handlers = <<>>

(* ----------------------------- actions --------------------------------- *)
\* browser.tabs.onRemoved listener, up to its await or its end
OnRemoved(t) ==
    /\ ~MicrotaskQueued
    /\ removal[t] = "idle"
    /\ LET tabToRemove == Key(t)
           curIdx      == findCurrentTab(recentTabs)
       IN  IF curIdx = -1
           THEN \* equals(null, tabToRemove) throws a TypeError
                /\ removal' = [removal EXCEPT ![t] = "done"]
                /\ lastOp' = Op("onRemoved", t, "threw")
                /\ UNCHANGED <<recentTabs, activationPromise>>
           ELSE IF equals(recentTabs[curIdx + 1], tabToRemove)
           THEN /\ activationPromise' = t
                /\ removal' = [removal EXCEPT ![t] = "await"]
                /\ lastOp' = Op("onRemoved", t, "suspended")
                /\ UNCHANGED recentTabs
           ELSE /\ recentTabs' = FilterOut(recentTabs, tabToRemove)
                /\ removal' = [removal EXCEPT ![t] = "done"]
                /\ lastOp' = Op("onRemoved", t, "filtered")
                /\ UNCHANGED activationPromise
    /\ UNCHANGED <<isTraversingHistory, actuations>>
    /\ UNCHANGED <<idx, handlers>>

\* the rest of the onRemoved listener, run once its promise is resolved
ResumeRemoved(t) ==
    /\ removal[t] = "ready"
    /\ recentTabs' = FilterOut(recentTabs, Key(t))
    /\ removal' = [removal EXCEPT ![t] = "done"]
    /\ lastOp' = Op("resumeRemoved", t, "filtered")
    /\ UNCHANGED <<isTraversingHistory, activationPromise, actuations>>
    /\ UNCHANGED <<idx, handlers>>

\* browser.tabs.onActivated listener, called with the key of tab t
Activate(t) ==
    /\ ~MicrotaskQueued
    /\ IF ActivationIgnored(isTraversingHistory)
       THEN /\ lastOp' = Op("onActivated", 0, "ignored")
            /\ UNCHANGED <<recentTabs, activationPromise, removal>>
       ELSE LET new == recordVisit(recentTabs, Key(t))
            IN  /\ \A i \in 1..Len(new) : new[i].lastSeen <= MaxSeen
                /\ recentTabs' = new
                /\ lastOp' = Op("onActivated", t, VisitNote(recentTabs, Key(t)))
                /\ IF activationPromise # 0
                   THEN /\ removal' =
                             [removal EXCEPT ![activationPromise] =
                                 IF @ = "await" THEN "ready" ELSE @]
                        /\ activationPromise' = 0
                   ELSE UNCHANGED <<removal, activationPromise>>
    /\ UNCHANGED <<isTraversingHistory, actuations>>
    /\ UNCHANGED <<idx, handlers>>

\* the host activates a tab it has not removed
OnActivated(t) == t \in Alive /\ Activate(t)

\* an activation event of the present tab that reaches the listener after
\* the removal event of that tab, while its removal handler is suspended
OnActivatedLate(t) == removal[t] = "await" /\ Activate(t)

\* browser.commands.onCommand listener, up to its await or its end
OnCommand(command) ==
    /\ ~MicrotaskQueued
    /\ LET curIdx == findCurrentTab(recentTabs)
           newIdx == NewIdx(command, curIdx, Len(recentTabs))
       IN  IF newIdx # -2
           THEN /\ actuations < MaxCmds
                /\ recentTabs' = Recenter(recentTabs, newIdx)
                /\ actuations' = actuations + 1
                /\ isTraversingHistory' = TRUE
                /\ lastOp' = Op("onCommand", recentTabs[newIdx + 1].tabId, command)
           ELSE /\ isTraversingHistory' = FALSE
                /\ lastOp' = Op("onCommand", 0, command)
                /\ UNCHANGED <<recentTabs, actuations>>
    /\ UNCHANGED <<activationPromise, removal>>
    /\ UNCHANGED <<idx, handlers>>

\* windows.update and tabs.update both fulfilled: the onCommand listener
\* resumes and runs to its end
ActuationDone ==
    /\ ~MicrotaskQueued
    /\ actuations > 0
    /\ actuations' = actuations - 1
    /\ isTraversingHistory' = FALSE
    /\ lastOp' = Op("actuation", 0, "fulfilled")
    /\ UNCHANGED <<recentTabs, activationPromise, removal>>
    /\ UNCHANGED <<idx, handlers>>

\* one of the update calls rejected (the window or the tab no longer
\* exists): the await throws and the listener ends without reaching its
\* last statement
ActuationFailed ==
    /\ ~MicrotaskQueued
    /\ actuations > 0
    /\ actuations' = actuations - 1
    /\ lastOp' = Op("actuation", 0, "rejected")
    /\ UNCHANGED <<recentTabs, isTraversingHistory, activationPromise, removal>>
    /\ UNCHANGED <<idx, handlers>>

Next ==
    \/ \E t \in TabIds : OnRemoved(t)
    \/ \E t \in TabIds : ResumeRemoved(t)
    \/ \E t \in TabIds : OnActivated(t)
    \/ \E command \in {"go-back", "go-forward"} : OnCommand(command)
    \/ ActuationDone
    \/ ActuationFailed

Spec == Init /\ [][Next]_vars

\* the listeners under a host that may also deliver late activation events
NextAnyOrder == Next \/ \E t \in TabIds : OnActivatedLate(t)

SpecAnyOrder == Init /\ [][NextAnyOrder]_vars

(* ------------------------- shared definitions -------------------------- *)
\* the spec's offset of an entry: negative in the past, positive in the future
Offset(e) == 0 - e.lastSeen

\* the indices of the entries at offset 0
Present(tabs) == {i \in 1..Len(tabs) : Offset(tabs[i]) = 0}

\* some entry of tabs has the key of tab t
InLedger(tabs, t) == \E i \in 1..Len(tabs) : equals(tabs[i], Key(t))

(* -------------------------------- C1 ----------------------------------- *)
\* C1: in every reachable state recentTabs is strictly ordered from past to
\* future: offsets strictly increase along the array, so no two entries
\* share an offset and at most one entry has offset 0.
C1_StrictlyOrdered ==
    /\ \A i \in 1..Len(recentTabs) - 1 :
          Offset(recentTabs[i]) < Offset(recentTabs[i + 1])
    /\ \A i, j \in 1..Len(recentTabs) :
          i # j => Offset(recentTabs[i]) # Offset(recentTabs[j])
    /\ Cardinality(Present(recentTabs)) <= 1

\* a ledger with a past, a present and a future entry and with a gap in its
\* offsets, reached through visits and a command
C1_Witness ==
    /\ Len(recentTabs) = 3
    /\ Offset(recentTabs[1]) < -1
    /\ Offset(recentTabs[2]) = 0
    /\ Offset(recentTabs[3]) > 0
    /\ lastOp.op = "onCommand"

(* -------------------------------- C2 ----------------------------------- *)
\* C2: in every reachable state with a non-empty ledger exactly one entry
\* has offset 0 and findCurrentTab finds it (the host never activates a tab
\* whose removal event it has delivered: OnActivated takes tabs of Alive).
C2_ExactlyOnePresent ==
    recentTabs # <<>> =>
        /\ Cardinality(Present(recentTabs)) = 1
        /\ findCurrentTab(recentTabs) + 1 \in Present(recentTabs)

\* the ledger after a removal handler has resumed
C2_Witness ==
    /\ lastOp.op = "resumeRemoved"
    /\ Len(recentTabs) >= 2
    /\ Cardinality(Present(recentTabs)) = 1

(* -------------------------------- C3 ----------------------------------- *)
\* the tab of the present entry, or 0
PresentTab(tabs) ==
    IF Present(tabs) = {} THEN 0 ELSE tabs[CHOOSE i \in Present(tabs) : TRUE].tabId

\* C3: a removal event for the present tab K suspends its handler and leaves
\* the ledger as it is; the handler leaves its await only through a recorded
\* visit of another tab N; and when it then completes the ledger holds no
\* entry for K and exactly one zero-offset entry, that of N.
C3_RemovePresentRendezvous ==
    [][\A k \in TabIds :
        /\ (removal[k] = "idle" /\ removal'[k] # "idle" /\ PresentTab(recentTabs) = k)
              => (removal'[k] = "await" /\ recentTabs' = recentTabs)
        /\ (removal[k] = "await" /\ removal'[k] # "await")
              => /\ removal'[k] = "ready"
                 /\ lastOp'.op = "onActivated"
                 /\ lastOp'.note # "ignored"
                 /\ lastOp'.tab # k
        /\ (removal[k] = "ready" /\ removal'[k] = "done")
              => /\ lastOp.op = "onActivated"
                 /\ lastOp.tab # k
                 /\ ~InLedger(recentTabs', k)
                 /\ Cardinality(Present(recentTabs')) = 1
                 /\ PresentTab(recentTabs') = lastOp.tab
    ]_vars

\* a removal handler that had suspended has completed, and entries survive
C3_Witness ==
    /\ lastOp.op = "resumeRemoved"
    /\ ~InLedger(recentTabs, lastOp.tab)
    /\ Len(recentTabs) >= 2
    /\ PresentTab(recentTabs) # 0

(* -------------------------------- C4 ----------------------------------- *)
\* C4: an activation event handled while isTraversingHistory is true leaves
\* recentTabs unchanged.
C4_TraversalGuard ==
    [][(isTraversingHistory /\ lastOp'.op = "onActivated")
          => recentTabs' = recentTabs]_vars

\* an activation has been ignored while a command handler actuates
C4_Witness ==
    /\ isTraversingHistory
    /\ lastOp.op = "onActivated"
    /\ lastOp.note = "ignored"
    /\ Len(recentTabs) >= 2

(* -------------------------------- C5 ----------------------------------- *)
\* C5: whenever a command handler ends (its actuation fulfilled or rejected,
\* or no target in range), isTraversingHistory is false afterwards and the
\* ledger is left as the handler re-centered it.
C5_FlagClearedOnEveryExit ==
    [][(actuations' < actuations \/ (lastOp'.op = "onCommand" /\ lastOp'.tab = 0))
          => (isTraversingHistory' = FALSE /\ recentTabs' = recentTabs)]_vars

(* -------------------------------- C7 ----------------------------------- *)
\* the removal handlers suspended on their await
Suspended == {t \in TabIds : removal[t] = "await"}

\* C7: at most one removal handler is suspended on activationPromise at a
\* time.
C7_AtMostOneGate == Cardinality(Suspended) <= 1

(* -------------------------------- C6 ----------------------------------- *)
\* the host can deliver an activation event the listener handles
HostCanActivate ==
    \E t \in Alive :
        \/ isTraversingHistory
        \/ LET new == recordVisit(recentTabs, Key(t))
           IN  \A i \in 1..Len(new) : new[i].lastSeen <= MaxSeen

\* The event loop runs a queued continuation, the host settles every update
\* call, and the host keeps delivering activation events: in particular each
\* removal of the present tab is followed by an activation of another tab.
LiveSpec ==
    /\ Spec
    /\ WF_vars(\E t \in TabIds : ResumeRemoved(t))
    /\ WF_vars(ActuationDone \/ ActuationFailed)
    /\ WF_vars(\E t \in TabIds : OnActivated(t))

\* C6: every removal handler that suspended on the rendezvous eventually
\* resumes and completes, and its tab is then absent from the ledger,
\* whatever command or removal events are handled in between.  The claim
\* is charged only while the host still has a tab to activate, and a run in
\* which the traversal flag stays set is not held against it.
C6_SuspendedRemovalCompletes ==
    \A k \in TabIds :
        (removal[k] = "await") ~>
            \/ (removal[k] = "done" /\ ~InLedger(recentTabs, k))
            \/ ~HostCanActivate
            \/ isTraversingHistory

(* -------------------------------- C8 ----------------------------------- *)
\* the step is a recorded visit (the onActivated listener with the flag clear)
RecordedVisit == lastOp'.op = "onActivated" /\ lastOp'.note # "ignored"

\* C8: a recorded visit of a key that is not in a ledger with a present
\* entry at index p drops every entry after p, keeps entries 1..p in order
\* with each offset one step further into the past, and appends the key at
\* offset 0 as the last entry.
C8_TruncateOnBranch ==
    [][(/\ RecordedVisit
        /\ Present(recentTabs) # {}
        /\ ~InLedger(recentTabs, lastOp'.tab))
          => LET p == CHOOSE i \in Present(recentTabs) : TRUE
             IN  /\ Len(recentTabs') = p + 1
                 /\ \A i \in 1..p :
                       /\ equals(recentTabs'[i], recentTabs[i])
                       /\ Offset(recentTabs'[i]) = Offset(recentTabs[i]) - 1
                 /\ equals(recentTabs'[p + 1], Key(lastOp'.tab))
                 /\ Offset(recentTabs'[p + 1]) = 0
    ]_vars

\* a new key has been recorded on a ledger that had a future: the future is
\* gone and the old present has aged
C8_Witness ==
    /\ lastOp.op = "onActivated"
    /\ lastOp.note = "new-branched"
    /\ Len(recentTabs) >= 2
    /\ Offset(recentTabs[Len(recentTabs) - 1]) = -1
    /\ recentTabs[Len(recentTabs)].tabId = lastOp.tab

(* -------------------------------- C9 ----------------------------------- *)
\* the indices of the entries of tabs with the key of tab t
Occurrences(tabs, t) == {i \in 1..Len(tabs) : equals(tabs[i], Key(t))}

\* C9: a recorded visit of a key that occurs at or before the present
\* leaves exactly one entry with that key: the new last entry, at offset 0.
C9_DedupeOnRevisit ==
    [][(/\ RecordedVisit
        /\ \E p \in Present(recentTabs) :
              \E i \in Occurrences(recentTabs, lastOp'.tab) : i <= p)
          => /\ Occurrences(recentTabs', lastOp'.tab) = {Len(recentTabs')}
             /\ Offset(recentTabs'[Len(recentTabs')]) = 0
    ]_vars

\* a key of the past has been visited again and others remain
C9_Witness ==
    /\ lastOp.op = "onActivated"
    /\ lastOp.note \in {"revisit", "revisit-branched"}
    /\ Len(recentTabs) >= 2
    /\ Occurrences(recentTabs, lastOp.tab) = {Len(recentTabs)}

(* -------------------------------- C10 ---------------------------------- *)
\* C10: a command with an in-range target (p-1 for go-back, p+1 for
\* go-forward, p the index of the present) subtracts the target's old offset
\* from every offset: the target becomes the only zero-offset entry, order
\* and pairwise offset differences are kept, and the actuation is invoked on
\* the target's key.
C10_TraverseRecenter ==
    [][\A command \in {"go-back", "go-forward"} :
         \A p \in Present(recentTabs) :
           LET target == IF command = "go-back" THEN p - 1 ELSE p + 1
           IN  (/\ lastOp'.op = "onCommand"
                /\ lastOp'.note = command
                /\ lastOp' # lastOp \/ actuations' # actuations
                /\ target \in 1..Len(recentTabs))
                 => /\ Len(recentTabs') = Len(recentTabs)
                    /\ \A i \in 1..Len(recentTabs) :
                          /\ equals(recentTabs'[i], recentTabs[i])
                          /\ Offset(recentTabs'[i]) =
                               Offset(recentTabs[i]) - Offset(recentTabs[target])
                    /\ Present(recentTabs') = {target}
                    /\ \A i, j \in 1..Len(recentTabs) :
                          Offset(recentTabs'[i]) - Offset(recentTabs'[j]) =
                            Offset(recentTabs[i]) - Offset(recentTabs[j])
                    /\ actuations' = actuations + 1
                    /\ lastOp'.tab = recentTabs[target].tabId
    ]_vars

\* a go-forward has re-centered a ledger of three entries on its last one
C10_Witness ==
    /\ lastOp.op = "onCommand"
    /\ lastOp.note = "go-forward"
    /\ Len(recentTabs) = 3
    /\ Present(recentTabs) = {3}
    /\ lastOp.tab = recentTabs[3].tabId
    /\ actuations > 0

(* -------------------------------- C11 ---------------------------------- *)
\* C11: a go-back handled when the present is the first entry, or a
\* go-forward handled when the present is the last entry, starts no
\* actuation, leaves recentTabs unchanged and ends with isTraversingHistory
\* false.
C11_BoundsNoOp ==
    [][\A command \in {"go-back", "go-forward"} :
         \A p \in Present(recentTabs) :
            (/\ lastOp'.op = "onCommand"
             /\ lastOp'.note = command
             /\ \/ command = "go-back" /\ p = 1
                \/ command = "go-forward" /\ p = Len(recentTabs))
              => /\ actuations' = actuations
                 /\ recentTabs' = recentTabs
                 /\ isTraversingHistory' = FALSE
    ]_vars

\* a go-back has been handled at the first of several entries
C11_Witness ==
    /\ lastOp = Op("onCommand", 0, "go-back")
    /\ Len(recentTabs) >= 2
    /\ Present(recentTabs) = {1}
    /\ ~isTraversingHistory


C13_NoAdjacentDuplicates ==
    \A i \in 1..(Len(recentTabs) - 1) :
        ~(/\ recentTabs[i].tabId = recentTabs[i + 1].tabId
          /\ recentTabs[i].windowId = recentTabs[i + 1].windowId)

\* a removal has just deleted an entry that sat between two others, which
\* are now adjacent
C13_Witness ==
    /\ lastOp.op = "onRemoved"
    /\ lastOp.note = "filtered"
    /\ Len(recentTabs) = 2
    /\ Offset(recentTabs[2]) - Offset(recentTabs[1]) = 2
    /\ recentTabs[1].tabId # recentTabs[2].tabId

(* -------------------------------- C19 ---------------------------------- *)
\* C19: in every reachable state the keys in recentTabs are pairwise
\* distinct: no key occurs in more than one entry, past, present or future.
C19_KeysDistinct ==
    \A i, j \in 1..Len(recentTabs) :
        (/\ recentTabs[i].tabId = recentTabs[j].tabId
         /\ recentTabs[i].windowId = recentTabs[j].windowId) => i = j

\* every tab of the host is in the ledger and a visit of a tab that was
\* already in it has just been recorded
C19_Witness ==
    /\ Len(recentTabs) = MaxTab
    /\ lastOp.op = "onActivated"
    /\ lastOp.note = "revisit"
    /\ isTraversingHistory = FALSE


(* -------------------------------- C16 ---------------------------------- *)
\* C16: in every reachable state in which some command handler has started
\* its actuation and the actuation has not completed, isTraversingHistory
\* is true, also when two command handlers overlap.
C16_FlagWhileActuating == actuations > 0 => isTraversingHistory


(* -------------------------------- C14 ---------------------------------- *)
\* The event loop runs a queued continuation and the host settles every
\* update call, but the host owes no activation event: after the removal of
\* its last tab it has none to emit.
QuietHostSpec ==
    /\ Spec
    /\ WF_vars(\E t \in TabIds : ResumeRemoved(t))
    /\ WF_vars(ActuationDone \/ ActuationFailed)

\* C14: a removal handler for the present tab does not block for ever: it
\* eventually completes even when the host emits no activation event after
\* the removal, as when the last tab of the host has been removed.
C14_RemovalCompletesWithoutActivation ==
    \A k \in TabIds :
        (removal[k] = "await" /\ Alive = {}) ~> (removal[k] = "done")


(* -------------------------------- C17 ---------------------------------- *)
\* the elements of a set of integers, largest first
RECURSIVE Descending(_)
Descending(S) ==
    IF S = {} THEN <<>>
    ELSE LET m == CHOOSE x \in S : \A y \in S : y <= x
         IN  <<m>> \o Descending(S \ {m})

\* every strictly ordered ledger of at most MaxLen entries: lastSeen
\* strictly decreases from the first (oldest) to the last entry
OrderedLedgers ==
    {[i \in 1..Cardinality(S) |-> Entry(Key(i), Descending(S)[i])] :
        S \in {T \in SUBSET ((0 - MaxSeen)..MaxSeen) : Cardinality(T) <= MaxLen}}

SearchInit ==
    /\ recentTabs \in OrderedLedgers
    /\ isTraversingHistory = FALSE
    /\ activationPromise = 0
    /\ removal = [t \in TabIds |-> "idle"]
    /\ actuations = 0
    /\ lastOp = Op("ledger", 0, "drawn")
    /\ idx = 0
    /\ handlers = <<>>

\* one call of findCurrentTab: the returned index is kept in lastOp.tab
Search ==
    /\ lastOp.op = "ledger"
    /\ lastOp' = Op("findCurrentTab", findCurrentTab(recentTabs), "returned")
    /\ UNCHANGED <<recentTabs, isTraversingHistory, activationPromise,
                   removal, actuations>>
    /\ UNCHANGED <<idx, handlers>>

SearchSpec == SearchInit /\ [][Search]_vars

\* C17: on every strictly ordered ledger of bounded length findCurrentTab
\* returns the index of the entry at offset 0 exactly when there is one and
\* -1 otherwise, the empty ledger included: the result of a linear scan.
C17_SearchEqualsScan ==
    lastOp.op = "findCurrentTab" =>
        IF \E i \in 1..Len(recentTabs) : recentTabs[i].lastSeen = 0
        THEN /\ lastOp.tab >= 0
             /\ lastOp.tab < Len(recentTabs)
             /\ recentTabs[lastOp.tab + 1].lastSeen = 0
        ELSE lastOp.tab = -1

\* the search has found the present as the second of five entries, which
\* takes three rounds of the loop: left, right, found
C17_Witness ==
    /\ lastOp.op = "findCurrentTab"
    /\ Len(recentTabs) = 5
    /\ lastOp.tab = 1
    /\ recentTabs[2].lastSeen = 0


(* ======================================================================= *)
(* Storage-backed variant (src/background.js lines 1-185).  The ledger and *)
(* the flag live in chrome.storage.session: recentTabs and                 *)
(* isTraversingHistory stand for the stored values, and every listener     *)
(* works on the copy getState handed to it.  Storage requests are served   *)
(* in the order they are issued, so a request takes effect when it is      *)
(* issued; the listener that issued it resumes in a later step, and any    *)
(* other listener may run in between.                                      *)
(* ======================================================================= *)
StoredEntry(k, time) ==
    [tabId |-> k.tabId, windowId |-> k.windowId, accessTime |-> time]

\* the loop of findCurrentTab(recentTabs) on the window [start, end]
RECURSIVE BinarySearchStored(_, _, _)
BinarySearchStored(tabs, start, end) ==
    IF start > end THEN -1
    ELSE LET mid  == (start + end) \div 2
             time == tabs[mid + 1].accessTime
         IN  IF time = 0 THEN mid
             ELSE IF time > 0 THEN BinarySearchStored(tabs, start, mid - 1)
                  ELSE BinarySearchStored(tabs, mid + 1, end)

\* JS index of the entry with accessTime = 0, or -1
findCurrentTabStored(tabs) == BinarySearchStored(tabs, 0, Len(tabs) - 1)

\* equals(curTab, tabToRemove) with curTab taken from findCurrentTab: the
\* optional chaining makes a null curTab differ from every key
equalsCurrent(tabs, k) ==
    LET curIdx == findCurrentTabStored(tabs)
    IN  /\ curIdx # -1
        /\ tabs[curIdx + 1].tabId = k.tabId
        /\ tabs[curIdx + 1].windowId = k.windowId

\* recentTabs.filter((tab) => !equals(tab, k))
FilterStored(tabs, k) ==
    SelectSeq(tabs, LAMBDA e : ~(e.tabId = k.tabId /\ e.windowId = k.windowId))

\* the ledger the onActivated listener writes back
recordVisitStored(tabs, k) ==
    LET tabToAdd == StoredEntry(k, 0)
        curIdx   == findCurrentTabStored(tabs)
        kept     == FilterStored(SubSeq(tabs, 1, curIdx + 1), tabToAdd)
        aged     == [i \in 1..Len(kept) |->
                        [kept[i] EXCEPT !.accessTime = @ - 1]]
    IN  IF curIdx = -1 THEN <<tabToAdd>> ELSE Append(aged, tabToAdd)

\* for (const tab of recentTabs) tab.accessTime -= prevLastSeen
RecenterStored(tabs, newIdx) ==
    LET prevLastSeen == tabs[newIdx + 1].accessTime
    IN  [i \in 1..Len(tabs) |-> [tabs[i] EXCEPT !.accessTime = @ - prevLastSeen]]

\* a suspended listener: its event, the await it is suspended on and the
\* copies of the stored values it got from getState
Handler(kind, t, command, pc, snap, flag) ==
    [kind |-> kind, tab |-> t, command |-> command, pc |-> pc,
     recentTabs |-> snap, isTraversingHistory |-> flag]

\* the listener at position i has run to its end
Ended(i) == SubSeq(handlers, 1, i - 1) \o SubSeq(handlers, i + 1, Len(handlers))

\* initialize() has stored the host's current tab
StoreInit ==
    /\ recentTabs = <<StoredEntry(Key(1), 0)>>
    /\ isTraversingHistory = FALSE
    /\ activationPromise = 0
    /\ removal = [t \in TabIds |-> "idle"]
    /\ actuations = 0
    /\ lastOp = Op("initialize", 0, "stored")
    /\ idx = 0
    /\ handlers = <<>>

\* chrome.tabs.onRemoved listener, up to await getState()
StoredOnRemoved(t) ==
    /\ removal[t] = "idle"
    /\ Len(handlers) < MaxHandlers
    /\ removal' = [removal EXCEPT ![t] = "done"]
    /\ handlers' = Append(handlers,
           Handler("onRemoved", t, "", "got", recentTabs, isTraversingHistory))
    /\ UNCHANGED <<recentTabs, isTraversingHistory>>
    /\ UNCHANGED <<activationPromise, actuations, lastOp, idx>>

\* chrome.tabs.onRemoved listener, from one await to the next
StoredOnRemovedResume(i) ==
    /\ handlers[i].kind = "onRemoved"
    /\ LET h == handlers[i]
           tabToRemove == Key(h.tab)
       IN  IF h.pc = "got" /\ equalsCurrent(h.recentTabs, tabToRemove)
           THEN \* await new Promise((resolve) => setTimeout(resolve, 50))
                /\ handlers' = [handlers EXCEPT ![i].pc = "timer",
                                                ![i].recentTabs = <<>>]
                /\ UNCHANGED recentTabs
           ELSE IF h.pc = "timer"
           THEN \* the timer has fired: ({ recentTabs } = await getState())
                /\ handlers' = [handlers EXCEPT ![i].pc = "got2",
                                                ![i].recentTabs = recentTabs]
                /\ UNCHANGED recentTabs
           ELSE \* filter and await setState({ recentTabs })
                /\ recentTabs' = FilterStored(h.recentTabs, tabToRemove)
                /\ handlers' = Ended(i)
    /\ UNCHANGED <<isTraversingHistory, removal>>
    /\ UNCHANGED <<activationPromise, actuations, lastOp, idx>>

\* chrome.tabs.onActivated listener, up to await getState()
StoredOnActivated(t) ==
    /\ removal[t] = "idle"
    /\ Len(handlers) < MaxHandlers
    /\ handlers' = Append(handlers,
           Handler("onActivated", t, "", "got", recentTabs, isTraversingHistory))
    /\ UNCHANGED <<recentTabs, isTraversingHistory, removal>>
    /\ UNCHANGED <<activationPromise, actuations, lastOp, idx>>

\* chrome.tabs.onActivated listener, from await getState() to its end
StoredOnActivatedResume(i) ==
    /\ handlers[i].kind = "onActivated"
    /\ LET h == handlers[i]
           new == recordVisitStored(h.recentTabs, Key(h.tab))
       IN  IF h.isTraversingHistory
           THEN UNCHANGED recentTabs
           ELSE /\ \A j \in 1..Len(new) : new[j].accessTime >= 0 - MaxAge
                /\ recentTabs' = new
    /\ handlers' = Ended(i)
    /\ UNCHANGED <<isTraversingHistory, removal>>
    /\ UNCHANGED <<activationPromise, actuations, lastOp, idx>>

\* chrome.commands.onCommand listener, up to
\* await setState({ isTraversingHistory: true })
StoredOnCommand(command) ==
    /\ Len(handlers) < MaxHandlers
    /\ isTraversingHistory' = TRUE
    /\ handlers' = Append(handlers,
           Handler("onCommand", 0, command, "flag", <<>>, TRUE))
    /\ UNCHANGED <<recentTabs, removal>>
    /\ UNCHANGED <<activationPromise, actuations, lastOp, idx>>

\* chrome.commands.onCommand listener, from one await to the next
StoredOnCommandResume(i) ==
    /\ handlers[i].kind = "onCommand"
    /\ LET h      == handlers[i]
           curIdx == findCurrentTabStored(h.recentTabs)
           newIdx == NewIdx(h.command, curIdx, Len(h.recentTabs))
       IN  IF h.pc = "flag"
           THEN \* await getState()
                /\ handlers' = [handlers EXCEPT ![i].pc = "got",
                                                ![i].recentTabs = recentTabs]
                /\ UNCHANGED <<recentTabs, isTraversingHistory>>
           ELSE IF h.pc = "got" /\ newIdx # -2
           THEN \* re-center and await setState({ recentTabs })
                /\ recentTabs' = RecenterStored(h.recentTabs, newIdx)
                /\ handlers' = [handlers EXCEPT ![i].pc = "set",
                                                ![i].recentTabs = <<>>]
                /\ UNCHANGED isTraversingHistory
           ELSE IF h.pc = "set"
           THEN \* await Promise.all([windows.update, tabs.update])
                /\ handlers' = [handlers EXCEPT ![i].pc = "act"]
                /\ UNCHANGED <<recentTabs, isTraversingHistory>>
           ELSE \* finally: await setState({ isTraversingHistory: false }),
                \* reached past the bounds check, or when the update calls
                \* have been fulfilled or rejected
                /\ isTraversingHistory' = FALSE
                /\ handlers' = Ended(i)
                /\ UNCHANGED recentTabs
    /\ UNCHANGED removal
    /\ UNCHANGED <<activationPromise, actuations, lastOp, idx>>

StoreNext ==
    \/ \E t \in TabIds : StoredOnRemoved(t)
    \/ \E i \in 1..Len(handlers) : StoredOnRemovedResume(i)
    \/ \E t \in TabIds : StoredOnActivated(t)
    \/ \E i \in 1..Len(handlers) : StoredOnActivatedResume(i)
    \/ \E command \in {"go-back", "go-forward"} : StoredOnCommand(command)
    \/ \E i \in 1..Len(handlers) : StoredOnCommandResume(i)

StoreSpec == StoreInit /\ [][StoreNext]_vars


\* the step is taken by the suspended listener at position i
Stepped(i) ==
    \/ handlers' = Ended(i)
    \/ Len(handlers') = Len(handlers) /\ handlers'[i] # handlers[i]

(* -------------------------------- C15 ---------------------------------- *)
\* C15: a command handled while the stored ledger has no entry with
\* accessTime 0, empty or not, leaves the stored ledger unchanged, performs
\* no actuation and ends with the stored isTraversingHistory false.
C15_NoPresentNoOp ==
    [][\A i \in 1..Len(handlers) :
         (/\ handlers[i].kind = "onCommand"
          /\ handlers[i].pc = "got"
          /\ Stepped(i)
          /\ handlers[i].recentTabs = recentTabs
          /\ \A j \in 1..Len(recentTabs) : recentTabs[j].accessTime # 0)
           => /\ recentTabs' = recentTabs
              /\ handlers' = Ended(i)
              /\ isTraversingHistory' = FALSE
    ]_vars

(* -------------------------------- C18 ---------------------------------- *)
\* the suspended listener h will write the ledger it computes from its copy
\* when it resumes
WritesBack(h) ==
    IF h.kind = "onRemoved"
    THEN h.pc = "got2" \/ (h.pc = "got" /\ ~equalsCurrent(h.recentTabs, Key(h.tab)))
    ELSE IF h.kind = "onActivated"
    THEN ~h.isTraversingHistory
    ELSE /\ h.pc = "got"
         /\ NewIdx(h.command, findCurrentTabStored(h.recentTabs),
                   Len(h.recentTabs)) # -2

\* C18: every listener's read-modify-write of the stored ledger is atomic:
\* no listener is about to write back a ledger computed from a copy that
\* another listener has overwritten since it was read.
C18_NoStaleWriteBack ==
    \A i \in 1..Len(handlers) :
        WritesBack(handlers[i]) => handlers[i].recentTabs = recentTabs


(* ======================================================================= *)
(* Index-based variant (src/background.js lines 459-555): recentTabs holds *)
(* {tabId, windowId} pairs in visiting order, a tab possibly several       *)
(* times, and idx is the position of the current one.                      *)
(* ======================================================================= *)
\* an empty slot of the array, or an index outside it: undefined
Undefined == [tabId |-> 0, windowId |-> 0]

\* recentTabs[i], i a JS index
At(tabs, i) == IF i >= 0 /\ i < Len(tabs) THEN tabs[i + 1] ELSE Undefined

SameKey(a, b) == a.tabId = b.tabId /\ a.windowId = b.windowId

\* the filter that removes consecutive duplicates, from position pos on
RECURSIVE KeepFrom(_, _)
KeepFrom(tabs, pos) ==
    IF pos > Len(tabs) THEN <<>>
    ELSE (IF pos = 1 \/ ~SameKey(tabs[pos - 1], tabs[pos])
          THEN <<tabs[pos]>> ELSE <<>>) \o KeepFrom(tabs, pos + 1)

\* the onRemoved listener from its counting loop to its end: the new
\* recentTabs and idx
RemoveAndFixIdx(tabs, i, k) ==
    LET count    == Cardinality({p \in 1..Len(tabs) :
                                    SameKey(tabs[p], k) /\ p - 1 < i})
        filtered == SelectSeq(tabs, LAMBDA e : e.tabId # k.tabId \/ e.windowId # k.windowId)
        pairs    == Cardinality({p \in 1..(Len(filtered) - 1) :
                                    SameKey(filtered[p], filtered[p + 1])})
    IN  [recentTabs |-> KeepFrom(filtered, 1), idx |-> i - count - pairs]

\* recentTabs.length = i + 1: cut, or pad with empty slots
SetLength(tabs, n) ==
    IF n <= Len(tabs) THEN SubSeq(tabs, 1, n)
    ELSE tabs \o [p \in 1..(n - Len(tabs)) |-> Undefined]

\* main() has pushed the host's current tab
IdxInit ==
    /\ recentTabs = <<Key(1)>>
    /\ idx = 0
    /\ isTraversingHistory = FALSE
    /\ activationPromise = 0
    /\ removal = [t \in TabIds |-> "idle"]
    /\ actuations = 0
    /\ lastOp = Op("main", 0, "pushed")
    /\ handlers = <<>>

\* the onRemoved listener from its counting loop on; tab.tabId throws on an
\* empty slot before anything is assigned
IdxRemoveFrom(t) ==
    /\ IF \E p \in 1..Len(recentTabs) : recentTabs[p] = Undefined
       THEN UNCHANGED <<recentTabs, idx>>
       ELSE LET r == RemoveAndFixIdx(recentTabs, idx, Key(t))
            IN  recentTabs' = r.recentTabs /\ idx' = r.idx
    /\ removal' = [removal EXCEPT ![t] = "done"]

\* browser.tabs.onRemoved listener, up to its await or its end
IdxOnRemoved(t) ==
    /\ ~MicrotaskQueued
    /\ removal[t] = "idle"
    /\ IF At(recentTabs, idx) = Undefined
       THEN \* recentTabs[idx].tabId throws a TypeError
            /\ removal' = [removal EXCEPT ![t] = "done"]
            /\ UNCHANGED <<recentTabs, idx, activationPromise>>
       ELSE IF t = At(recentTabs, idx).tabId
       THEN /\ activationPromise' = t
            /\ removal' = [removal EXCEPT ![t] = "await"]
            /\ UNCHANGED <<recentTabs, idx>>
       ELSE /\ IdxRemoveFrom(t)
            /\ UNCHANGED activationPromise
    /\ UNCHANGED <<isTraversingHistory, actuations, lastOp, handlers>>

\* the rest of the onRemoved listener, run once its promise is resolved
IdxResumeRemoved(t) ==
    /\ removal[t] = "ready"
    /\ IdxRemoveFrom(t)
    /\ UNCHANGED <<isTraversingHistory, activationPromise, actuations, lastOp,
                   handlers>>

\* browser.tabs.onActivated listener for a tab the host has not removed
IdxOnActivated(t) ==
    /\ ~MicrotaskQueued
    /\ t \in Alive
    /\ IF isTraversingHistory
       THEN /\ UNCHANGED <<recentTabs, idx>>
            /\ IF activationPromise # 0
               THEN /\ removal' = [removal EXCEPT ![activationPromise] =
                                      IF @ = "await" THEN "ready" ELSE @]
                    /\ activationPromise' = 0
               ELSE UNCHANGED <<removal, activationPromise>>
       ELSE IF idx + 1 < 0
       THEN \* recentTabs.length = idx + 1 throws a RangeError
            UNCHANGED <<recentTabs, idx, removal, activationPromise>>
       ELSE /\ idx + 2 <= MaxHistory
            /\ recentTabs' = Append(SetLength(recentTabs, idx + 1), Key(t))
            /\ idx' = idx + 1
            /\ IF activationPromise # 0
               THEN /\ removal' = [removal EXCEPT ![activationPromise] =
                                      IF @ = "await" THEN "ready" ELSE @]
                    /\ activationPromise' = 0
               ELSE UNCHANGED <<removal, activationPromise>>
    /\ UNCHANGED <<isTraversingHistory, actuations, lastOp, handlers>>

\* browser.commands.onCommand listener, up to its await; recentTabs[idx]
\* being undefined, the listener throws before it calls the host
IdxOnCommand(command) ==
    /\ ~MicrotaskQueued
    /\ LET newIdx == IF command = "go-back" /\ idx > 0 THEN idx - 1
                     ELSE IF command = "go-forward" /\ idx < Len(recentTabs) - 1
                          THEN idx + 1
                          ELSE idx
       IN  /\ isTraversingHistory' = TRUE
           /\ idx' = newIdx
           /\ IF At(recentTabs, newIdx) = Undefined
              THEN UNCHANGED actuations
              ELSE actuations < MaxCmds /\ actuations' = actuations + 1
    /\ UNCHANGED <<recentTabs, activationPromise, removal, lastOp, handlers>>

\* both update calls fulfilled: the onCommand listener clears the flag
IdxActuationDone ==
    /\ ~MicrotaskQueued
    /\ actuations > 0
    /\ actuations' = actuations - 1
    /\ isTraversingHistory' = FALSE
    /\ UNCHANGED <<recentTabs, idx, activationPromise, removal, lastOp, handlers>>

\* an update call rejected: the listener ends at its await
IdxActuationFailed ==
    /\ ~MicrotaskQueued
    /\ actuations > 0
    /\ actuations' = actuations - 1
    /\ UNCHANGED <<recentTabs, idx, isTraversingHistory, activationPromise,
                   removal, lastOp, handlers>>

IdxNext ==
    \/ \E t \in TabIds : IdxOnRemoved(t)
    \/ \E t \in TabIds : IdxResumeRemoved(t)
    \/ \E t \in TabIds : IdxOnActivated(t)
    \/ \E command \in {"go-back", "go-forward"} : IdxOnCommand(command)
    \/ IdxActuationDone
    \/ IdxActuationFailed

IdxSpec == IdxInit /\ [][IdxNext]_vars

(* -------------------------------- C20 ---------------------------------- *)
\* C20: whenever the removal handler reaches its counting loop, also after
\* it waited on activationPromise, no entry with the key of the removed tab
\* is at position idx of recentTabs.  (A handler that did not wait reaches
\* the loop only when recentTabs[idx] has another tabId.)
C20_RemovedNotAtIdx ==
    \A t \in TabIds :
        removal[t] = "ready" => ~SameKey(At(recentTabs, idx), Key(t))


(* ======================================================================= *)
(* Index-based variant of src/background_script.js: main, the onActivated  *)
(* listener and the onCommand listener are those of the index-based        *)
(* variant above; the onRemoved listener moves idx inside its loops and    *)
(* once more at its end.                                                   *)
(* ======================================================================= *)
\* the loop over recentTabs.entries() from position pos on, idx being i:
\* the idx it ends with, and whether tab.tabId threw on an empty slot
RECURSIVE CountDown(_, _, _, _)
CountDown(tabs, pos, i, k) ==
    IF pos > Len(tabs) THEN [idx |-> i, threw |-> FALSE]
    ELSE IF tabs[pos] = Undefined THEN [idx |-> i, threw |-> TRUE]
    ELSE IF SameKey(tabs[pos], k) /\ pos - 1 <= i
         THEN CountDown(tabs, pos + 1, i - 1, k)
         ELSE CountDown(tabs, pos + 1, i, k)

\* the onRemoved listener from its loop to its end: the new recentTabs and
\* idx
ScriptRemove(tabs, i, k) ==
    LET loop     == CountDown(tabs, 1, i, k)
        filtered == SelectSeq(tabs, LAMBDA e : e.tabId # k.tabId \/ e.windowId # k.windowId)
        repeats  == Cardinality({p \in 2..Len(filtered) :
                                    SameKey(filtered[p - 1], filtered[p])})
    IN  IF loop.threw
        THEN [recentTabs |-> tabs, idx |-> loop.idx]
        ELSE [recentTabs |-> KeepFrom(filtered, 1),
              idx |-> loop.idx - repeats - 1]

ScriptInit == IdxInit

\* browser.tabs.onRemoved listener, up to its await or its end
ScriptOnRemoved(t) ==
    /\ ~MicrotaskQueued
    /\ removal[t] = "idle"
    /\ IF At(recentTabs, idx) = Undefined
       THEN \* recentTabs[idx].tabId throws a TypeError
            /\ removal' = [removal EXCEPT ![t] = "done"]
            /\ UNCHANGED <<recentTabs, idx, activationPromise>>
       ELSE IF t = At(recentTabs, idx).tabId
       THEN /\ activationPromise' = t
            /\ removal' = [removal EXCEPT ![t] = "await"]
            /\ UNCHANGED <<recentTabs, idx>>
       ELSE LET r == ScriptRemove(recentTabs, idx, Key(t))
            IN  /\ recentTabs' = r.recentTabs
                /\ idx' = r.idx
                /\ removal' = [removal EXCEPT ![t] = "done"]
                /\ UNCHANGED activationPromise
    /\ UNCHANGED <<isTraversingHistory, actuations, lastOp, handlers>>

\* the rest of the onRemoved listener, run once its promise is resolved
ScriptResumeRemoved(t) ==
    /\ removal[t] = "ready"
    /\ LET r == ScriptRemove(recentTabs, idx, Key(t))
       IN  /\ recentTabs' = r.recentTabs
           /\ idx' = r.idx
    /\ removal' = [removal EXCEPT ![t] = "done"]
    /\ UNCHANGED <<isTraversingHistory, activationPromise, actuations, lastOp,
                   handlers>>

\* browser.tabs.onActivated listener
ScriptOnActivated(t) == IdxOnActivated(t)

\* browser.commands.onCommand listener, up to its await
ScriptOnCommand(command) == IdxOnCommand(command)

\* both update calls fulfilled
ScriptActuationDone == IdxActuationDone

\* an update call rejected
ScriptActuationFailed == IdxActuationFailed

ScriptNext ==
    \/ \E t \in TabIds : ScriptOnRemoved(t)
    \/ \E t \in TabIds : ScriptResumeRemoved(t)
    \/ \E t \in TabIds : ScriptOnActivated(t)
    \/ \E command \in {"go-back", "go-forward"} : ScriptOnCommand(command)
    \/ ScriptActuationDone
    \/ ScriptActuationFailed

ScriptSpec == ScriptInit /\ [][ScriptNext]_vars

(* -------------------------------- C21 ---------------------------------- *)
\* C21: in every reachable state the cursor satisfies
\* 0 <= idx <= recentTabs.length - 1 and recentTabs[idx] is a defined entry.
C21_IdxInRange ==
    /\ idx >= 0
    /\ idx <= Len(recentTabs) - 1
    /\ At(recentTabs, idx) # Undefined

=============================================================================
